---- MODULE Spec2Model ----
(***************************************************************************)
(* A model of QPanda3D's widget (QPanda3DWidget.py): the translation of Qt *)
(* input events into Panda3D messenger events, the resize handler and the  *)
(* paint handler that copies the off-screen texture into a QImage.         *)
(*                                                                         *)
(* Python strings are sequences of one-character strings, so that join,    *)
(* concatenation and comparison are computed character by character.       *)
(***************************************************************************)
EXTENDS Integers, Sequences, FiniteSets, TLC

VARIABLES
    debug,              \* QPanda3DWidget.debug
    last,               \* the input event of the latest handler call
    sent,               \* messenger.send calls made by the latest handler call
    printed,            \* print calls made by the latest handler call
    caught,             \* exception caught by the latest handler call
    raised,             \* exception that left the latest handler call
    resolved,           \* outcome of the latest handler call's prefix resolution
    initial_film_size,  \* QPanda3DWidget.initial_film_size
    initial_size,       \* QPanda3DWidget.initial_size
    film_size,          \* the lens film size of panda3DWorld.cam
    buff_size,          \* the size of panda3DWorld.buff
    resized,            \* the size carried by the latest resize event
    resizes,            \* number of resize events handled
    texture,            \* panda3DWorld.screenTexture
    shown,              \* the texture the latest paint copied
    out_image,          \* QPanda3DWidget.out_image
    allocs,             \* number of QImage objects created
    copied,             \* bytes moved by the latest paint's memmove, 0 if it made none
    painter,            \* QPanda3DWidget.painter: active, begin calls, image drawn last
    failedAt,           \* the step at which the latest paint raised, or "none"
    paints,             \* number of paint events handled
    active,             \* QPanda3DSynchronizer.isActive()
    inflight,           \* timeout events fired and not yet delivered to tick
    torn,               \* the widget has been torn down
    steps,              \* calls of taskMgr.step()
    updates,            \* calls of qPanda3DWidget.update()
    trace,              \* the calls made by the latest tick, in order
    ticks               \* number of ticks delivered

inputVars == <<debug, last, sent, printed, caught, raised, resolved>>
resizeVars == <<initial_film_size, initial_size, film_size, buff_size, resized, resizes>>
paintVars == <<texture, shown, out_image, allocs, copied, painter, failedAt, paints>>
pumpVars == <<active, inflight, torn, steps, updates, trace, ticks>>
vars == <<inputVars, resizeVars, paintVars, pumpVars>>

----------------------------------------------------------------------------
(* Strings *)

S_shift == <<"s", "h", "i", "f", "t">>
S_control == <<"c", "o", "n", "t", "r", "o", "l">>
S_alt == <<"a", "l", "t">>
S_unknown == <<"u", "n", "k", "n", "o", "w", "n">>
S_a == <<"a">>
S_mouse1 == <<"m", "o", "u", "s", "e", "1">>
S_wheel == <<"w", "h", "e", "e", "l">>
S_mouse_move == <<"m", "o", "u", "s", "e", "-", "m", "o", "v", "e">>
S_up == <<"-", "u", "p">>
S_dash == <<"-">>
S_empty == <<>>

\* Python's None: a value that is no string
None == <<"None">>

\* sep.join(list)
RECURSIVE Join(_, _)
Join(sep, list) ==
    IF list = <<>> THEN S_empty
    ELSE IF Len(list) = 1 THEN list[1]
    ELSE list[1] \o sep \o Join(sep, Tail(list))

\* str(n) for an integer n
Digit(d) == CASE d = 0 -> "0" [] d = 1 -> "1" [] d = 2 -> "2" [] d = 3 -> "3"
              [] d = 4 -> "4" [] d = 5 -> "5" [] d = 6 -> "6" [] d = 7 -> "7"
              [] d = 8 -> "8" [] d = 9 -> "9"

RECURSIVE NatToStr(_)
NatToStr(n) == IF n < 10 THEN <<Digit(n)>> ELSE NatToStr(n \div 10) \o <<Digit(n % 10)>>

IntToStr(n) == IF n < 0 THEN <<"-">> \o NatToStr(-n) ELSE NatToStr(n)

----------------------------------------------------------------------------
(* Symbol tables *)

\* Qt.KeyboardModifier values are bit masks; a mask is the set of its bits
NoModifier == {}
ShiftModifier == {25}
ControlModifier == {26}
AltModifier == {27}
MetaModifier == {28}
KeypadModifier == {29}
GroupSwitchModifier == {30}

\* the dictionary, in declaration (= iteration) order
QPanda3D_Modifier_translation ==
    << <<NoModifier, None>>,
       <<ShiftModifier, S_shift>>,
       <<ControlModifier, S_control>>,
       <<AltModifier, S_alt>>,
       <<MetaModifier, S_unknown>>,
       <<KeypadModifier, S_unknown>>,
       <<GroupSwitchModifier, S_unknown>> >>

\* the key and button dictionaries, with the entries the specification names
QPanda3D_Key_translation ==
    [k \in {"Key_A", "Key_Shift", "Key_Control", "Key_Alt"} |->
        CASE k = "Key_A" -> S_a
          [] k = "Key_Shift" -> S_shift
          [] k = "Key_Control" -> S_control
          [] k = "Key_Alt" -> S_alt]

QPanda3D_Button_translation ==
    [b \in {"LeftButton"} |-> S_mouse1]

----------------------------------------------------------------------------
(* Modifier prefix resolver *)

\* (qt_mods & qt_mod) == qt_mod
HasModifier(qt_mods, qt_mod) == (qt_mods \cap qt_mod) = qt_mod

\* variant: the table is walked in reverse
get_panda_key_modifiers_reversed(event) ==
    LET held == SelectSeq(QPanda3D_Modifier_translation,
                          LAMBDA e : HasModifier(event.modifiers, e[1]))
    IN  [i \in 1..Len(held) |-> held[Len(held) + 1 - i][2]]

get_panda_key_modifiers(event) ==
    LET held == SelectSeq(QPanda3D_Modifier_translation,
                          LAMBDA e : HasModifier(event.modifiers, e[1]))
    IN  [i \in 1..Len(held) |-> held[i][2]]

\* list.remove(x): drops the first occurrence of x
RECURSIVE Remove(_, _)
Remove(list, x) ==
    IF list = <<>> THEN <<>>
    ELSE IF list[1] = x THEN Tail(list)
    ELSE <<list[1]>> \o Remove(Tail(list), x)

InList(x, list) == \E i \in 1..Len(list) : list[i] = x

Ok(v) == [ok |-> TRUE, val |-> v, exc |-> "none"]
Raise(e) == [ok |-> FALSE, val |-> S_empty, exc |-> e]

\* variant: the last branch of the chain takes every other event
EventKey_wheelDefault(event) ==
    IF event.type = "QMouseEvent" THEN
        IF event.button \in DOMAIN QPanda3D_Button_translation
        THEN Ok(QPanda3D_Button_translation[event.button])
        ELSE Raise("KeyError")
    ELSE IF event.type = "QKeyEvent" THEN
        IF event.key \in DOMAIN QPanda3D_Key_translation
        THEN Ok(QPanda3D_Key_translation[event.key])
        ELSE Raise("KeyError")
    ELSE Ok(S_wheel)

\* the isinstance chain that resolves the event's own token
EventKey(event) ==
    IF event.type = "QMouseEvent" THEN
        IF event.button \in DOMAIN QPanda3D_Button_translation
        THEN Ok(QPanda3D_Button_translation[event.button])
        ELSE Raise("KeyError")
    ELSE IF event.type = "QKeyEvent" THEN
        IF event.key \in DOMAIN QPanda3D_Key_translation
        THEN Ok(QPanda3D_Key_translation[event.key])
        ELSE Raise("KeyError")
    ELSE IF event.type = "QWheelEvent" THEN Ok(S_wheel)
    ELSE Raise("NotImplementedError")

\* variant: no self-exclusion
JoinedPrefix_keep(mods, key) == Join(S_dash, mods)

\* the string after the self-exclusion step, before the trailing "-"
JoinedPrefix(mods, key) ==
    IF InList(key, mods) THEN Join(S_dash, Remove(mods, key))
    ELSE Join(S_dash, mods)

\* variant: the "-" is appended to the empty prefix too
FinishPrefix_always(prefix) == prefix \o S_dash

\* if prefix == "-": prefix = ""; if prefix: prefix += "-"
FinishPrefix(prefix) ==
    LET p == IF prefix = S_dash THEN S_empty ELSE prefix
    IN  IF p # S_empty THEN p \o S_dash ELSE p

get_panda_key_modifiers_prefix(event) ==
    LET mods == SelectSeq(get_panda_key_modifiers(event), LAMBDA m : m # None)
        key == EventKey(event)
    IN  IF key.ok THEN Ok(FinishPrefix(JoinedPrefix(mods, key.val)))
        ELSE key

----------------------------------------------------------------------------
(* Event dispatcher: the six input handlers *)

MsgButton == <<"U", "n", "i", "m", "p", "l", "e", "m", "e", "n", "t", "e", "d", " ", "b", "u", "t", "t", "o", "n", ".", " ", "P", "l", "e", "a", "s", "e", " ", "s", "e", "n", "d", " ", "a", "n", " ", "i", "s", "s", "u", "e", " ", "o", "n", " ", "g", "i", "t", "h", "u", "b", " ", "t", "o", " ", "f", "i", "x", " ", "t", "h", "i", "s", " ", "p", "r", "o", "b", "l", "e", "m">>
MsgKey == <<"U", "n", "i", "m", "p", "l", "e", "m", "e", "n", "t", "e", "d", " ", "k", "e", "y", ".", " ", "P", "l", "e", "a", "s", "e", " ", "s", "e", "n", "d", " ", "a", "n", " ", "i", "s", "s", "u", "e", " ", "o", "n", " ", "g", "i", "t", "h", "u", "b", " ", "t", "o", " ", "f", "i", "x", " ", "t", "h", "i", "s", " ", "p", "r", "o", "b", "l", "e", "m">>
MsgUnknownEvent == <<"U", "n", "k", "n", "o", "w", "n", " ", "e", "v", "e", "n", "t", " ", "t", "y", "p", "e">>

\* str(e) of a caught exception: the message of the NotImplementedError, the
\* repr of the missing dictionary key (its identifier) for a KeyError
ExcText(exc, event) ==
    IF exc = "NotImplementedError" THEN MsgUnknownEvent
    ELSE IF event.type = "QMouseEvent" THEN <<event.button>>
    ELSE <<event.key>>

\* variants: narrower except clauses
Catches_NotImplemented(exc) == exc = "NotImplementedError"

Catches_KeyError(exc) == exc = "KeyError"

\* "except Exception": both exceptions the try bodies raise derive from it
Catches(exc) == exc \in {"KeyError", "NotImplementedError"}

\* variant: the token before the prefix
ComposeName_swapped(prefix, token, suffix) == token \o prefix \o suffix

\* f"{prefix}{token}{suffix}"
ComposeName(prefix, token, suffix) == prefix \o token \o suffix

\* variant: no suffix
ReleaseSuffix_none == S_empty

\* the suffix of the release handlers
ReleaseSuffix == S_up

\* the f-string of a handler: the prefix is resolved first, then the table
\* is indexed; either may raise
EventName(event, table, id, suffix) ==
    LET pre == get_panda_key_modifiers_prefix(event)
    IN  IF ~pre.ok THEN pre
        ELSE IF id \notin DOMAIN table THEN Raise("KeyError")
        ELSE Ok(ComposeName(pre.val, table[id], suffix))

\* the try/except of a handler, given the outcome of computing the name
TryDispatch(event, name, debugLine, args, msg) ==
    IF name.ok THEN
        [sent |-> <<[name |-> name.val, args |-> args]>>,
         printed |-> IF debug THEN <<debugLine>> ELSE <<>>,
         caught |-> "none", raised |-> "none"]
    ELSE IF Catches(name.exc) THEN
        [sent |-> <<>>,
         printed |-> <<msg, ExcText(name.exc, event)>>,
         caught |-> name.exc, raised |-> "none"]
    ELSE
        [sent |-> <<>>, printed |-> <<>>, caught |-> "none", raised |-> name.exc]

\* variant: the coordinates exchanged
PosArgs_swapped(event) == <<[x |-> event.y, y |-> event.x]>>

PosArgs(event) == <<[x |-> event.x, y |-> event.y]>>

mousePressEvent(event) ==
    LET b == EventName(event, QPanda3D_Button_translation, event.button, S_empty)
    IN  TryDispatch(event, b, b.val, PosArgs(event), MsgButton)

mouseMoveEvent(event) ==
    LET b == Ok(S_mouse_move)
    IN  TryDispatch(event, b, b.val, PosArgs(event), MsgButton)

mouseReleaseEvent(event) ==
    LET b == EventName(event, QPanda3D_Button_translation, event.button, ReleaseSuffix)
    IN  TryDispatch(event, b, b.val, PosArgs(event), MsgButton)

wheelEvent(event) ==
    LET w == LET pre == get_panda_key_modifiers_prefix(event)
             IN  IF pre.ok THEN Ok(ComposeName(pre.val, S_wheel, S_empty)) ELSE pre
    IN  TryDispatch(event, w, w.val \o <<" ">> \o IntToStr(event.delta),
                    <<[delta |-> event.delta]>>, MsgButton)

keyPressEvent(event) ==
    LET k == EventName(event, QPanda3D_Key_translation, event.key, S_empty)
    IN  TryDispatch(event, k, k.val, <<>>, MsgKey)

keyReleaseEvent(event) ==
    LET k == EventName(event, QPanda3D_Key_translation, event.key, ReleaseSuffix)
    IN  TryDispatch(event, k, k.val, <<>>, MsgKey)

----------------------------------------------------------------------------
(* Resize handling *)

\* a lens film dimension is a rational <<numerator, denominator>>
RECURSIVE Gcd(_, _)
Gcd(a, b) == IF b = 0 THEN a ELSE Gcd(b, a % b)

Norm(r) == LET g == Gcd(r[1], r[2]) IN <<r[1] \div g, r[2] \div g>>

\* film * n / d, evaluated left to right
Scale(film, n, d) == Norm(<<film[1] * n, film[2] * d>>)

\* variant: the current film size is scaled instead of the initial one
resizeEvent_film_compound(size) ==
    <<Scale(film_size[1], size[1], initial_size[1]),
      Scale(film_size[2], size[2], initial_size[2])>>

\* lens.set_film_size(...) and buff.setSize(...) of resizeEvent
resizeEvent_film(size) ==
    <<Scale(initial_film_size[1], size[1], initial_size[1]),
      Scale(initial_film_size[2], size[2], initial_size[2])>>

resizeEvent_buff(size) == <<size[1], size[2]>>

----------------------------------------------------------------------------
(* Pixel bridge *)

BytesPerPixel == 4

\* texture.getRamImage().getData(): width * height * 4 bytes, bottom row first
TextureData(t) == [k \in 1..(t.w * t.h * BytesPerPixel) |-> (t.seed + k - 1) % 256]

\* variant: reshape((width, height, 4)) read as height rows
Reshape_widthFirst(data, height, width) ==
    [r \in 1..height |-> [c \in 1..width |-> [ch \in 1..BytesPerPixel |->
        data[((c - 1) * height + (r - 1)) * BytesPerPixel + ch]]]]

\* np.frombuffer(...).reshape((height, width, 4)): buf[r][c][ch], 1-based here
Reshape(data, height, width) ==
    [r \in 1..height |-> [c \in 1..width |-> [ch \in 1..BytesPerPixel |->
        data[((r - 1) * width + (c - 1)) * BytesPerPixel + ch]]]]

\* np.transpose(buf, (1, 0, 2)) of an array with the given number of rows and columns
Transpose(buf, rows, cols) ==
    [c \in 1..cols |-> [r \in 1..rows |-> buf[r][c]]]

\* variant: clockwise
Rot90_clockwise(m, rows, cols) ==
    [i \in 1..cols |-> [j \in 1..rows |-> m[rows + 1 - j][i]]]

\* np.rot90(m): counterclockwise, result[i][j] = m[j][cols - 1 - i] (0-based)
Rot90(m, rows, cols) ==
    [i \in 1..cols |-> [j \in 1..rows |-> m[j][cols + 1 - i]]]

\* np.ascontiguousarray(...): the bytes in row-major order
Flatten(m, rows, cols) ==
    [k \in 1..(rows * cols * BytesPerPixel) |->
        LET p == (k - 1) \div BytesPerPixel
        IN  m[(p \div cols) + 1][(p % cols) + 1][((k - 1) % BytesPerPixel) + 1]]

\* np.rot90(np.transpose(buf, (1, 0, 2))) of paintEvent
Reoriented(t) ==
    LET buf == Reshape(TextureData(t), t.h, t.w)
        tr == Transpose(buf, t.h, t.w)
    IN  Rot90(tr, t.w, t.h)

\* buf_transposed of paintEvent, as contiguous bytes
Reorient(t) == Flatten(Reoriented(t), t.h, t.w)

\* variant: the test is skipped
HasFrame_always(t) == TRUE

\* texture.mightHaveRamImage()
HasFrame(t) == t.hasRam

\* QImage(): the null image
NullImage == [id |-> 0, w |-> 0, h |-> 0, bits |-> <<>>]

Uninit == -1

\* QImage(width, height, Format_ARGB32): a new object, contents not initialised
NewImage(id, width, height) ==
    [id |-> id, w |-> width, h |-> height,
     bits |-> [k \in 1..(width * height * BytesPerPixel) |-> Uninit]]

\* variant: only the widths are compared
SizeChanged_widthOnly(img, width, height) == img.w # height

\* self.out_image.size() != QSize(height, width)
SizeChanged(img, width, height) == <<img.w, img.h>> # <<height, width>>

\* QPainter(): begin, drawImage and end of the widget's painter
NewPainter == [active |-> FALSE, begins |-> 0, drawn |-> 0]

QPainter_begin(p) == [p EXCEPT !.active = TRUE, !.begins = @ + 1]

QPainter_drawImage(p, id) == [p EXCEPT !.drawn = id]

QPainter_end(p) == [p EXCEPT !.active = FALSE]

\* the steps of paintEvent that may raise
FailPoints == {"none", "fetch", "reorient", "allocate", "copy", "draw"}

\* memmove(dst, src, n) into the image's storage
Memmove(bits, src, n) ==
    [k \in 1..Len(bits) |-> IF k <= n THEN src[k] ELSE bits[k]]

----------------------------------------------------------------------------
(* Frame pump *)

\* variant: no isActive() test
tick_unguarded(isActive) == <<"step", "update">>

\* QPanda3DSynchronizer.tick: the calls it makes, in order
tick(isActive) == IF isActive THEN <<"step", "update">> ELSE <<>>

Count(calls, name) == Cardinality({i \in 1..Len(calls) : calls[i] = name})

----------------------------------------------------------------------------
(* Inputs *)

MaxDim == 2       \* texture widths and heights range over 1..MaxDim
MaxPaints == 3    \* paint events per behaviour
MaxResizes == 2   \* resize events per behaviour
MaxInflight == 3  \* timeout events waiting in the event loop
MaxTicks == 4     \* ticks delivered per behaviour

HeldFlags == {ShiftModifier, ControlModifier, AltModifier, MetaModifier, KeypadModifier}
ModifierMasks == {UNION S : S \in SUBSET HeldFlags}
Buttons == {"LeftButton", "ExtraButton24"}
Keys == {"Key_A", "Key_Shift", "Key_Control", "Key_Alt", "Key_F35"}
Positions == {<<10, 20>>, <<0, 0>>}
\* an event object and the button or key it carries; an object of another
\* class that offers the same accessors carries a mapped button or key
MouseInputs == {<<"QMouseEvent", b>> : b \in Buttons} \cup {<<"Other", "LeftButton">>}
KeyInputs == {<<"QKeyEvent", k>> : k \in Keys} \cup {<<"Other", "Key_A">>}
Deltas == {120, -120}

Event(handler, type, mods, button, key, pos, delta) ==
    [handler |-> handler, type |-> type, modifiers |-> mods, button |-> button,
     key |-> key, x |-> pos[1], y |-> pos[2], delta |-> delta]

NoEvent == Event("none", "none", NoModifier, "NoButton", "NoKey", <<0, 0>>, 0)
NoCall == Raise("nocall")

FilmSizes == { << <<2, 1>>, <<3, 2>> >>, << <<1, 1>>, <<1, 1>> >> }
WidgetSizes == { <<800, 600>>, <<640, 480>> }
ResizeSizes == { <<w, h>> : w \in {400, 800, 640, 100}, h \in {300, 600, 480, 30} }

Seeds == {0, 100}
Textures == [hasRam : BOOLEAN, w : 1..MaxDim, h : 1..MaxDim, seed : Seeds]
NoTexture == [hasRam |-> FALSE, w |-> 0, h |-> 0, seed |-> 0]

----------------------------------------------------------------------------
(* The widget after __init__ *)

WidgetInit(dbg, film, size) ==
    /\ debug = dbg
    /\ last = NoEvent
    /\ sent = <<>>
    /\ printed = <<>>
    /\ caught = "none"
    /\ raised = "none"
    /\ resolved = NoCall
    /\ initial_film_size = film
    /\ initial_size = size
    /\ film_size = film
    /\ buff_size = size
    /\ resized = size
    /\ resizes = 0
    /\ texture = [hasRam |-> FALSE, w |-> 1, h |-> 1, seed |-> 0]
    /\ shown = NoTexture
    /\ out_image = NullImage
    /\ allocs = 0
    /\ copied = 0
    /\ painter = NewPainter
    /\ failedAt = "none"
    /\ paints = 0
    /\ active = TRUE
    /\ inflight = 0
    /\ torn = FALSE
    /\ steps = 0
    /\ updates = 0
    /\ trace = <<>>
    /\ ticks = 0

----------------------------------------------------------------------------
(* Input handlers as actions *)

Handled(event, res, pre) ==
    /\ last' = event
    /\ sent' = res.sent
    /\ printed' = res.printed
    /\ caught' = res.caught
    /\ raised' = res.raised
    /\ resolved' = pre
    /\ UNCHANGED <<debug, resizeVars, paintVars, pumpVars>>

MousePress ==
    \E tb \in MouseInputs, m \in ModifierMasks, pos \in Positions :
        LET event == Event("mousePress", tb[1], m, tb[2], "NoKey", pos, 0)
        IN  Handled(event, mousePressEvent(event), get_panda_key_modifiers_prefix(event))

MouseMove ==
    \E m \in ModifierMasks, pos \in Positions :
        LET event == Event("mouseMove", "QMouseEvent", m, "NoButton", "NoKey", pos, 0)
        IN  Handled(event, mouseMoveEvent(event), NoCall)

MouseRelease ==
    \E tb \in MouseInputs, m \in ModifierMasks, pos \in Positions :
        LET event == Event("mouseRelease", tb[1], m, tb[2], "NoKey", pos, 0)
        IN  Handled(event, mouseReleaseEvent(event), get_panda_key_modifiers_prefix(event))

Wheel ==
    \E m \in ModifierMasks, d \in Deltas :
        LET event == Event("wheel", "QWheelEvent", m, "NoButton", "NoKey", <<0, 0>>, d)
        IN  Handled(event, wheelEvent(event), get_panda_key_modifiers_prefix(event))

KeyPress ==
    \E tk \in KeyInputs, m \in ModifierMasks :
        LET event == Event("keyPress", tk[1], m, "NoButton", tk[2], <<0, 0>>, 0)
        IN  Handled(event, keyPressEvent(event), get_panda_key_modifiers_prefix(event))

KeyRelease ==
    \E tk \in KeyInputs, m \in ModifierMasks :
        LET event == Event("keyRelease", tk[1], m, "NoButton", tk[2], <<0, 0>>, 0)
        IN  Handled(event, keyReleaseEvent(event), get_panda_key_modifiers_prefix(event))

InitInput == \E dbg \in BOOLEAN : WidgetInit(dbg, << <<1, 1>>, <<1, 1>> >>, <<640, 480>>)

NextInput == MousePress \/ MouseMove \/ MouseRelease \/ Wheel \/ KeyPress \/ KeyRelease

SpecInput == InitInput /\ [][NextInput]_vars

----------------------------------------------------------------------------
(* Resize handler as an action *)

Resize ==
    \E size \in ResizeSizes \cup WidgetSizes :
        /\ resizes < MaxResizes
        /\ film_size' = resizeEvent_film(size)
        /\ buff_size' = resizeEvent_buff(size)
        /\ resized' = size
        /\ resizes' = resizes + 1
        /\ UNCHANGED <<initial_film_size, initial_size, inputVars, paintVars, pumpVars>>

InitResize == \E film \in FilmSizes, size \in WidgetSizes : WidgetInit(FALSE, film, size)

NextResize == Resize

SpecResize == InitResize /\ [][NextResize]_vars

----------------------------------------------------------------------------
(* Paint handler as an action; the engine renders into the texture *)

\* the render engine replaces the contents, and possibly the size, of the texture
RenderFrame ==
    /\ texture' \in Textures
    /\ texture' # texture
    /\ UNCHANGED <<shown, out_image, allocs, copied, painter, failedAt, paints, inputVars, resizeVars, pumpVars>>

\* the body of paintEvent for a texture with a RAM image; fail is the step
\* that raises, if any
PaintFrame(fail) ==
    LET buf_transposed == Reorient(texture)
        size == texture.w * texture.h * BytesPerPixel
        changed == SizeChanged(out_image, texture.w, texture.h)
        image == IF changed THEN NewImage(allocs + 1, texture.w, texture.h)
                 ELSE out_image
    IN  /\ fail = "allocate" => changed
        /\ failedAt' = fail
        /\ IF fail \in {"fetch", "reorient", "allocate"} THEN
              /\ copied' = 0
              /\ UNCHANGED <<shown, out_image, allocs, painter>>
           ELSE IF fail = "copy" THEN
              /\ out_image' = image
              /\ allocs' = IF changed THEN allocs + 1 ELSE allocs
              /\ shown' = IF changed THEN NoTexture ELSE shown
              /\ copied' = 0
              /\ UNCHANGED painter
           ELSE
              /\ out_image' = [image EXCEPT !.bits = Memmove(image.bits, buf_transposed, size)]
              /\ allocs' = IF changed THEN allocs + 1 ELSE allocs
              /\ shown' = texture
              /\ copied' = size
              /\ painter' = IF fail = "draw" THEN QPainter_begin(painter)
                            ELSE QPainter_end(QPainter_drawImage(QPainter_begin(painter), image.id))

Paint ==
    /\ paints < MaxPaints
    /\ paints' = paints + 1
    /\ IF HasFrame(texture) THEN \E fail \in FailPoints : PaintFrame(fail)
       ELSE /\ failedAt' = "none"
            /\ copied' = 0
            /\ UNCHANGED <<shown, out_image, allocs, painter>>
    /\ UNCHANGED <<texture, inputVars, resizeVars, pumpVars>>

InitPaint == WidgetInit(FALSE, << <<1, 1>>, <<1, 1>> >>, <<640, 480>>)

NextPaint == RenderFrame \/ Paint

SpecPaint == InitPaint /\ [][NextPaint]_vars

----------------------------------------------------------------------------
(* Frame pump as actions *)

\* the interval of the running timer elapses: a timeout event is queued
Timeout ==
    /\ active
    /\ inflight < MaxInflight
    /\ inflight' = inflight + 1
    /\ UNCHANGED <<active, torn, steps, updates, trace, ticks, inputVars, resizeVars, paintVars>>

\* a queued timeout event is delivered to tick
Tick ==
    /\ inflight > 0
    /\ ticks < MaxTicks
    /\ inflight' = inflight - 1
    /\ ticks' = ticks + 1
    /\ trace' = tick(active)
    /\ steps' = steps + Count(tick(active), "step")
    /\ updates' = updates + Count(tick(active), "update")
    /\ UNCHANGED <<active, torn, inputVars, resizeVars, paintVars>>

\* an explicit synchronizer.stop(); events already queued stay queued
Stop ==
    /\ active
    /\ active' = FALSE
    /\ UNCHANGED <<inflight, torn, steps, updates, trace, ticks, inputVars, resizeVars, paintVars>>

\* the widget is closed and destroyed; the widget class has no handler for
\* it and the timer has no Qt parent, so the timer is left as it is
Teardown ==
    /\ ~torn
    /\ torn' = TRUE
    /\ UNCHANGED <<active, inflight, steps, updates, trace, ticks, inputVars, resizeVars, paintVars>>

\* __del__: runs when the collector finalizes the synchronizer, at some
\* moment after the widget that refers to it is gone, or never
Finalize ==
    /\ torn
    /\ active \/ inflight > 0
    /\ active' = FALSE
    /\ inflight' = 0
    /\ UNCHANGED <<torn, steps, updates, trace, ticks, inputVars, resizeVars, paintVars>>

InitPump == WidgetInit(FALSE, << <<1, 1>>, <<1, 1>> >>, <<640, 480>>)

NextPump == Timeout \/ Tick \/ Stop \/ Teardown \/ Finalize

SpecPump == InitPump /\ [][NextPump]_vars

----------------------------------------------------------------------------
(* Reference definitions used by the properties of the input handlers *)

\* the tokens of the modifiers held in a mask, in table declaration order
ModifierOrder ==
    << <<ShiftModifier, S_shift>>, <<ControlModifier, S_control>>, <<AltModifier, S_alt>>,
       <<MetaModifier, S_unknown>>, <<KeypadModifier, S_unknown>>,
       <<GroupSwitchModifier, S_unknown>> >>

HeldTokens(mask) ==
    LET held == SelectSeq(ModifierOrder, LAMBDA e : e[1] \subseteq mask)
    IN  [i \in 1..Len(held) |-> held[i][2]]

NamedModifiers == ShiftModifier \cup ControlModifier \cup AltModifier

\* the tokens joined by "-" with a trailing "-"
DashJoined(tokens) == Join(S_dash, tokens) \o S_dash

\* the prefix of a mask for a base token: the held tokens other than the base
\* token, joined, with a trailing "-" unless none is left
PrefixOf(mask, token) ==
    LET rest == SelectSeq(HeldTokens(mask), LAMBDA t : t # token)
    IN  IF rest = <<>> THEN S_empty ELSE DashJoined(rest)

IsRelease(event) == event.handler \in {"mouseRelease", "keyRelease"}
IsMouseButton(event) == event.handler \in {"mousePress", "mouseRelease"}
IsKey(event) == event.handler \in {"keyPress", "keyRelease"}

\* the event is of the class its handler expects and its button or key is mapped
MappedInput(event) ==
    \/ event.handler \in {"mouseMove", "wheel"}
    \/ /\ IsMouseButton(event)
       /\ event.type = "QMouseEvent"
       /\ event.button \in DOMAIN QPanda3D_Button_translation
    \/ /\ IsKey(event)
       /\ event.type = "QKeyEvent"
       /\ event.key \in DOMAIN QPanda3D_Key_translation

BaseToken(event) ==
    IF IsMouseButton(event) THEN QPanda3D_Button_translation[event.button]
    ELSE IF IsKey(event) THEN QPanda3D_Key_translation[event.key]
    ELSE IF event.handler = "wheel" THEN S_wheel
    ELSE S_mouse_move

UpSuffix(event) == IF IsRelease(event) THEN S_up ELSE S_empty

S_shift_control_alt_ == S_shift \o S_dash \o S_control \o S_dash \o S_alt \o S_dash

----------------------------------------------------------------------------
(* Properties of the modifier prefix resolver and of the event names *)

\* C1 (as stated): for held modifiers M within {shift, control, alt} and a
\* base key whose token is not in M, the prefix is the tokens of M in table
\* order joined by "-" plus a trailing "-".
C1_PrefixAlwaysDashed ==
    (/\ resolved.ok
     /\ last.modifiers \subseteq NamedModifiers
     /\ ~InList(BaseToken(last), HeldTokens(last.modifiers)))
    => resolved.val = DashJoined(HeldTokens(last.modifiers))

\* C1 (amended): the same for every non-empty M; when no modifier is held
\* the prefix is the empty string, without a "-".
C1_PrefixInTableOrder ==
    (/\ resolved.ok
     /\ last.modifiers \subseteq NamedModifiers
     /\ ~InList(BaseToken(last), HeldTokens(last.modifiers)))
    => resolved.val = IF last.modifiers = NoModifier THEN S_empty
                      ELSE DashJoined(HeldTokens(last.modifiers))

C1_Witness ==
    /\ last.handler = "keyPress"
    /\ last.key = "Key_A"
    /\ last.modifiers = NamedModifiers
    /\ resolved.ok
    /\ resolved.val = S_shift_control_alt_

\* C2 (as stated): every event sent by any of the six handlers is named
\* prefix + base token, plus "-up" for the release handlers, the prefix being
\* that of the modifiers held in the same event.
C2_AllSixPrefixed ==
    \A i \in 1..Len(sent) :
        sent[i].name = ComposeName(PrefixOf(last.modifiers, BaseToken(last)),
                                   BaseToken(last), UpSuffix(last))

\* C2 (amended): that holds for the events sent by the mouse press, mouse
\* release, wheel, key press and key release handlers; the mouse move handler
\* always sends the name "mouse-move", whatever modifiers are held.
C2_NameFormat ==
    \A i \in 1..Len(sent) :
        IF last.handler = "mouseMove" THEN sent[i].name = S_mouse_move
        ELSE sent[i].name = PrefixOf(last.modifiers, BaseToken(last))
                                \o BaseToken(last) \o UpSuffix(last)

C2_Witness ==
    /\ last.handler = "keyRelease"
    /\ last.modifiers = ControlModifier \cup AltModifier
    /\ Len(sent) = 1
    /\ sent[1].name = S_control \o S_dash \o S_alt \o S_dash \o S_a \o S_up

\* C3: when the event's own token is among the held modifier tokens it is left
\* out of the prefix and the other held modifiers keep table order, with a
\* trailing "-"; a modifier key pressed alone has the empty prefix and is
\* dispatched under its bare token.
C3_SelfExclusion ==
    (resolved.ok /\ InList(BaseToken(last), HeldTokens(last.modifiers)))
    => /\ resolved.val = PrefixOf(last.modifiers, BaseToken(last))
       /\ HeldTokens(last.modifiers) = <<BaseToken(last)>>
            => /\ resolved.val = S_empty
               /\ \A i \in 1..Len(sent) : sent[i].name = BaseToken(last) \o UpSuffix(last)

C3_Witness ==
    /\ last.handler = "keyPress"
    /\ last.key = "Key_Control"
    /\ last.modifiers = ControlModifier
    /\ resolved.ok
    /\ resolved.val = S_empty
    /\ Len(sent) = 1
    /\ sent[1].name = S_control

\* C4: a release handler that runs on the same key or button and the same
\* modifiers as the press handler before it sends the name the press handler
\* sent, with "-up" appended.
C4_ReleaseAppendsUp ==
    [][\A pair \in {<<"mousePress", "mouseRelease">>, <<"keyPress", "keyRelease">>} :
          (/\ last.handler = pair[1]
           /\ last'.handler = pair[2]
           /\ last'.type = last.type
           /\ last'.modifiers = last.modifiers
           /\ last'.button = last.button
           /\ last'.key = last.key
           /\ MappedInput(last)
           /\ Len(sent) = 1)
          => /\ Len(sent') = 1
             /\ sent'[1].name = sent[1].name \o S_up]_vars

C4_Witness ==
    /\ last.handler = "mouseRelease"
    /\ last.modifiers = ShiftModifier
    /\ Len(sent) = 1
    /\ sent[1].name = S_shift \o S_dash \o S_mouse1 \o S_up

\* C5: a mouse press with a mapped button makes exactly one send, named
\* prefix + button token, with the payload {x, y} of the event's position.
C5_MousePressSendsOnce ==
    (last.handler = "mousePress" /\ MappedInput(last))
    => /\ Len(sent) = 1
       /\ sent[1].name = PrefixOf(last.modifiers, BaseToken(last)) \o BaseToken(last)
       /\ sent[1].args = <<[x |-> last.x, y |-> last.y]>>

C5_Witness ==
    /\ last.handler = "mousePress"
    /\ last.button = "LeftButton"
    /\ last.modifiers = ControlModifier
    /\ last.x = 10 /\ last.y = 20
    /\ sent = <<[name |-> S_control \o S_dash \o S_mouse1, args |-> <<[x |-> 10, y |-> 20]>>]>>

\* C6 (as stated): a key press whose key is not in the key map sends nothing
\* and makes exactly one diagnostic log entry.
C6_UnmappedKeyOneEntry ==
    (last.handler = "keyPress" /\ last.type = "QKeyEvent"
        /\ last.key \notin DOMAIN QPanda3D_Key_translation)
    => (Len(sent) = 0 /\ Len(printed) = 1)

\* C6 (amended): it sends nothing and prints exactly two diagnostic lines: the
\* fixed "Unimplemented key" message, then the text of the exception.
C6_UnmappedKeyTwoLines ==
    (last.handler = "keyPress" /\ last.type = "QKeyEvent"
        /\ last.key \notin DOMAIN QPanda3D_Key_translation)
    => /\ Len(sent) = 0
       /\ printed = <<MsgKey, <<last.key>>>>
       /\ caught = "KeyError"

C6_Witness ==
    /\ last.handler = "keyPress"
    /\ last.type = "QKeyEvent"
    /\ last.key = "Key_F35"
    /\ sent = <<>>
    /\ Len(printed) = 2

\* C7: no failure of a handler (unmapped key, unmapped button, unrecognized
\* event type) leaves the handler; the failing call changes nothing of the
\* widget, and a mapped input handled after a failure is dispatched as usual.
C7_FailuresContained ==
    [][/\ raised' = "none"
       /\ caught' # "none" => UNCHANGED <<debug, resizeVars, paintVars, pumpVars>>
       /\ (caught # "none" /\ MappedInput(last'))
            => /\ Len(sent') = 1
               /\ caught' = "none"
               /\ sent'[1].name =
                    IF last'.handler = "mouseMove" THEN S_mouse_move
                    ELSE PrefixOf(last'.modifiers, BaseToken(last'))
                            \o BaseToken(last') \o UpSuffix(last')]_vars

C7_Witness ==
    /\ last.handler = "mousePress"
    /\ last.type = "Other"
    /\ caught = "NotImplementedError"
    /\ raised = "none"
    /\ sent = <<>>

----------------------------------------------------------------------------
(* Properties of the pixel bridge and of the resize handler *)

\* the bytes of the pixel with the given 0-based index in a byte buffer
PixelAt(bytes, index) == [ch \in 1..BytesPerPixel |-> bytes[index * BytesPerPixel + ch]]

\* C8: a paint of the texture that the paint before it copied, unchanged,
\* keeps the destination image object and leaves its bytes as they were.
C8_RepaintReusesImage ==
    [][(paints' = paints + 1 /\ texture.hasRam /\ shown = texture)
       => (out_image'.id = out_image.id /\ out_image'.bits = out_image.bits)]_vars

\* C9 (as stated): after a paint the pixel stored at source position (0,0) is
\* the top-left pixel (row 0, column 0) of the destination image.
C9_OriginAtTopLeft ==
    shown.hasRam => PixelAt(out_image.bits, 0) = PixelAt(TextureData(shown), 0)

\* C9 (amended): after a paint the pixel stored at source position (0,0) is at
\* row h-1, column 0 of the reoriented h x w buffer copied into the destination
\* image, its bottom-left corner, and the top-left pixel is the source pixel
\* of row h-1, column 0.
C9_OriginAtBottomLeft ==
    shown.hasRam =>
        /\ PixelAt(out_image.bits, (shown.h - 1) * shown.w) = PixelAt(TextureData(shown), 0)
        /\ PixelAt(out_image.bits, 0) = PixelAt(TextureData(shown), (shown.h - 1) * shown.w)

C9_Witness ==
    /\ shown.hasRam
    /\ shown.h = 2 /\ shown.w = 2
    /\ PixelAt(out_image.bits, 2) = PixelAt(TextureData(shown), 0)
    /\ PixelAt(out_image.bits, 0) # PixelAt(TextureData(shown), 0)

\* C10: after resize events the last of which carries (w, h), the film size is
\* (initial_film_w * w / initial_widget_w, initial_film_h * h / initial_widget_h)
\* whatever the sizes before it, and the render buffer has size (w, h).
C10_FilmProportional ==
    resizes >= 1 =>
        /\ buff_size = resized
        /\ \A i \in 1..2 :
              film_size[i][1] * (initial_film_size[i][2] * initial_size[i])
                = film_size[i][2] * (initial_film_size[i][1] * resized[i])
        /\ (/\ initial_film_size = << <<2, 1>>, <<3, 2>> >>
            /\ initial_size = <<800, 600>>
            /\ resized = <<400, 300>>) => film_size = << <<1, 1>>, <<3, 4>> >>
        /\ resized = initial_size => film_size = initial_film_size

C10_Witness ==
    /\ resizes = 2
    /\ initial_film_size = << <<2, 1>>, <<3, 2>> >>
    /\ initial_size = <<800, 600>>
    /\ resized = <<400, 300>>
    /\ buff_size = <<400, 300>>
    /\ film_size = << <<1, 1>>, <<3, 4>> >>

----------------------------------------------------------------------------
(* Properties of the frame pump *)

\* C11: every tick delivered while the timer is running makes exactly one
\* scheduler step and then exactly one repaint request; a tick delivered while
\* the timer is stopped, such as one queued before the stop, makes neither.
C11_TickStepsThenUpdates ==
    [][ticks' = ticks + 1 =>
          IF active
          THEN /\ trace' = <<"step", "update">>
               /\ steps' = steps + 1
               /\ updates' = updates + 1
          ELSE /\ trace' = <<>>
               /\ steps' = steps
               /\ updates' = updates]_vars

C11_Witness ==
    /\ ticks = 2
    /\ ~active
    /\ ~torn
    /\ steps = 1
    /\ updates = 1
    /\ trace = <<>>

\* C12: the pump is running right after construction, and from the teardown
\* of the widget on there is no scheduler step and no repaint request.
C12_NoStepAfterTeardown ==
    /\ active = TRUE
    /\ [][torn => (steps' = steps /\ updates' = updates)]_vars

----------------------------------------------------------------------------
(* Further properties of the pixel bridge *)

\* a paint that found a frame and ran to its end
PaintedFrame == paints' = paints + 1 /\ HasFrame(texture) /\ failedAt' = "none"

\* C13: after every paint with a frame the destination image has the
\* dimensions of the reoriented buffer (texture width columns, texture height
\* rows); the image is kept exactly when it already had them and is replaced
\* by a new one otherwise.
C13_ImageHasBufferSize ==
    [][PaintedFrame =>
          /\ out_image'.w = texture.w
          /\ out_image'.h = texture.h
          /\ (out_image'.id = out_image.id)
                <=> (out_image.w = texture.w /\ out_image.h = texture.h)]_vars

\* C14: at the end of every paint event, completed or failed in any of its
\* steps, the painter is not active.
C14_PainterNeverLeftActive == ~painter.active

\* C15: a paint while the texture has no RAM image leaves the destination
\* image and its contents as they are, copies no byte, does not begin the
\* painter and draws nothing.
C15_NoFramePaintIsNoOp ==
    [][(paints' = paints + 1 /\ ~texture.hasRam)
       => /\ out_image' = out_image
          /\ allocs' = allocs
          /\ copied' = 0
          /\ painter' = painter
          /\ failedAt' = "none"]_vars

C15_Witness ==
    /\ paints = 2
    /\ ~texture.hasRam
    /\ shown.hasRam
    /\ out_image.id = 1
    /\ copied = 0
    /\ painter.begins = 1
    /\ ~painter.active

\* C17: the bytes a paint copies, width * height * 4 of the texture, are as
\* many as the destination image used for the copy holds (its width * its
\* height * 4), be it kept or new.
C17_CopyFitsImage ==
    copied > 0 =>
        /\ copied = shown.w * shown.h * BytesPerPixel
        /\ copied = out_image.w * out_image.h * BytesPerPixel
        /\ copied = Len(out_image.bits)

C17_Witness ==
    /\ copied = 8
    /\ shown.w = 1 /\ shown.h = 2
    /\ out_image.w = 2 /\ out_image.h = 1
    /\ allocs = 1
    /\ paints = 2

\* C19: the reoriented buffer has h rows and w columns and its pixel at
\* (row r, column c) is the source pixel at (row h-1-r, column c).
C19_VerticalFlip ==
    shown.hasRam =>
        LET m == Reoriented(shown)
        IN  /\ Len(m) = shown.h
            /\ \A r \in 0..(shown.h - 1) :
                  /\ Len(m[r + 1]) = shown.w
                  /\ \A c \in 0..(shown.w - 1) :
                        /\ m[r + 1][c + 1]
                             = PixelAt(TextureData(shown), (shown.h - 1 - r) * shown.w + c)
                        /\ PixelAt(out_image.bits, r * shown.w + c)
                             = PixelAt(TextureData(shown), (shown.h - 1 - r) * shown.w + c)

C19_Witness ==
    /\ shown.hasRam
    /\ shown.w = 2 /\ shown.h = 2 /\ shown.seed = 0
    /\ out_image.bits = <<8, 9, 10, 11, 12, 13, 14, 15, 0, 1, 2, 3, 4, 5, 6, 7>>

----------------------------------------------------------------------------
(* Further properties of the modifier prefix resolver *)

\* C16: a resolver call with an event that is no key, mouse-button or wheel
\* event ends in the unrecognized-event-type failure and returns no prefix;
\* the resolver call for a mapped input after it returns its prefix as usual.
C16_UnknownEventTypeRaises ==
    [][/\ (last'.type = "Other" /\ resolved' # NoCall)
            => resolved' = Raise("NotImplementedError")
       /\ (resolved.exc = "NotImplementedError" /\ MappedInput(last') /\ resolved' # NoCall)
            => /\ resolved'.ok
               /\ resolved'.val = PrefixOf(last'.modifiers, BaseToken(last'))]_vars

C16_Witness ==
    /\ last.handler = "keyPress"
    /\ last.type = "Other"
    /\ last.modifiers = ShiftModifier
    /\ ~resolved.ok
    /\ resolved.exc = "NotImplementedError"
    /\ resolved.val = S_empty

\* the modifier string of the latest resolver call before the last two steps
JoinedOfLast ==
    JoinedPrefix(SelectSeq(get_panda_key_modifiers(last), LAMBDA m : m # None),
                 EventKey(last).val)

\* C18: a returned prefix is empty, or it ends with "-", does not start with
\* "-" and has no "--"; the joined modifier string is never "-", so that the
\* result is the joined string plus "-" when that is non-empty and "" otherwise.
C18_PrefixWellFormed ==
    resolved.ok =>
        LET p == resolved.val
        IN  /\ \/ p = S_empty
               \/ /\ p[Len(p)] = "-"
                  /\ p[1] # "-"
                  /\ \A i \in 1..(Len(p) - 1) : ~(p[i] = "-" /\ p[i + 1] = "-")
            /\ JoinedOfLast # S_dash
            /\ p = IF JoinedOfLast = S_empty THEN S_empty ELSE JoinedOfLast \o S_dash

C18_Witness ==
    /\ last.handler = "wheel"
    /\ last.modifiers = ShiftModifier \cup MetaModifier \cup KeypadModifier
    /\ resolved.ok
    /\ resolved.val = S_shift \o S_dash \o S_unknown \o S_dash \o S_unknown \o S_dash

====
